---- MODULE Spec2Model ----
(***************************************************************************)
(* Gateway manager of the bot (src/gateway/manager.ts, kept here as        *)
(* src/unnamed/part_003 lines 45-158): the main thread that owns the       *)
(* worker threads, the per-bucket identifyRequests queues and the two      *)
(* message handlers (TO_IDENTIFY, SHARD_ON).                               *)
(*                                                                         *)
(* The worker thread (dist/gateway/worker.js) and the library calls        *)
(* gateway.spawnShards / gateway.requestIdentify live outside this file;   *)
(* they follow the design document (sections 4.1 - 4.3): the worker is the *)
(* per-shard state machine, spawnShards starts a bucket shard by shard,    *)
(* requestIdentify resolves at some later step.                            *)
(*                                                                         *)
(* Further parts, each with a specification of its own:                    *)
(*   PlanSpec    the worker assignment of createGatewayManager             *)
(*   HttpSpec    the control channel (src/gateway/index.ts)                *)
(*   StatusSpec  Bot.changeStatus / Bot.status (src/unnamed/part_010) and  *)
(*               the maintenance test of Generator.handle                  *)
(*   ReloadSpec  the developer command "reload" (src/unnamed/part_000) and *)
(*               the restart of all clusters it triggers; the restart      *)
(*               itself (./manager.js) follows the design document, 4.4    *)
(*   ConvSpec    Conversation.generate / Conversation.reset and the lock   *)
(*               of Generator.handle (src/conversation); ConvLiveSpec is   *)
(*               the same without reset, with every await settling         *)
(*   ChatSpec    handleMessage and runningGenerations                      *)
(*               (src/gateway/index.ts lines 74-186)                       *)
(*   DbSpec      the database worker (src/db/index.ts) and the bot-side    *)
(*               helpers that publish to its queue (src/unnamed/part_009)  *)
(***************************************************************************)
EXTENDS Naturals, Integers, Sequences, FiniteSets, TLC

\* ---------------------------------------------------------------- bounds
\* connection.shards, connection.sessionStartLimit.maxConcurrency and
\* config.gateway.shardsPerWorker are run-time inputs; the model fixes them.
TotalShards == 5
MaxConcurrency == 2
ShardsPerWorker == 3
\* Budget of environment faults (rejections, reconnects, hangs, crashes).
MaxFaults == 1
\* Largest connection.shards and config.gateway.shardsPerWorker tried when
\* the worker assignment is computed for every configuration.
MaxCfgShards == 8
MaxCfgPerWorker == 4
\* Number of requests sent to the control channel.
MaxRequests == 2
\* Number of clusters (bot processes) and of chat messages they handle.
MaxClusters == 2
MaxChats == 3
\* Largest session-start budget (sessionStartLimit.remaining) tried.
MaxRemaining == 6
\* Number of concurrent Generator.handle invocations for one conversation
\* and of Conversation.reset calls.
MaxHandlers == 2
MaxResets == 1
\* Number of chat messages that handleMessage receives.
MaxMessages == 2
\* Number of messages published to the queue of the database worker.
MaxDbMessages == 2
\* const CONVERSATION_ERROR_RETRY_MAX_TRIES: number = 5
CONVERSATION_ERROR_RETRY_MAX_TRIES == 5

Shards == 0 .. (TotalShards - 1)
Buckets == 0 .. (MaxConcurrency - 1)

\* const concurrency = (shardId) => shardId % maxConcurrency
concurrency(shardId) == shardId % MaxConcurrency

\* Mutant: Math.floor in place of Math.ceil.
totalWorkersFloor(shards, shardsPerWorker) == shards \div shardsPerWorker

\* totalWorkers: Math.ceil(connection.shards / config.gateway.shardsPerWorker)
totalWorkers(shards, shardsPerWorker) ==
    (shards + shardsPerWorker - 1) \div shardsPerWorker

TotalWorkers == totalWorkers(TotalShards, ShardsPerWorker)

WorkerIds == 0 .. (TotalWorkers - 1)

\* The worker that owns a shard: contiguous ranges of shardsPerWorker shards.
workerIdOf(shardId, shardsPerWorker) == shardId \div shardsPerWorker

calculateWorkerId(shardId) == workerIdOf(shardId, ShardsPerWorker)

RECURSIVE SortedSeq(_)
SortedSeq(S) ==
    IF S = {} THEN << >>
    ELSE LET m == CHOOSE x \in S : \A y \in S : x <= y
         IN  << m >> \o SortedSeq(S \ {m})

\* The order in which spawnShards walks the shards of one bucket: workers in
\* ascending order, each worker's shards ascending; with contiguous worker
\* ranges this is the ascending order of the bucket's shard ids.
SpawnQueue(b) == SortedSeq({s \in Shards : concurrency(s) = b})

\* config.gateway.auth: not configured, empty, or a key.
AuthValues == {"unset", "", "k1"}
\* req.headers.authorization: no header, empty, the key, another key.
HeaderValues == {"unset", "", "k1", "k2"}
\* req.body.type: the one known command, another one, none.
BodyTypes == {"REQUEST_MEMBERS", "SHARD_STATUS", "unset"}

Clusters == 0 .. (MaxClusters - 1)
\* BotStatusType: "maintenance" and the incident types of the status page.
StatusTypes == {"operational", "maintenance", "major_outage"}

\* The running generation of clusters and the one a reload brings up.
Gens == {"old", "new"}
ShardStates == {"Disconnected", "PendingIdentify", "Identifying", "Ready"}

Handlers == 1 .. MaxHandlers
\* What manager.session.generate can throw, by the branch of the catch block
\* of Conversation.generate that it reaches: "unusable" (insufficient_quota,
\* access_terminated, SessionUnusable), "retryable" (requests,
\* invalid_request_error, TypeError), "fatal" (generation error with another
\* cause, client-side API error, Empty, Length), "other" (no branch).
ErrorKinds == {"unusable", "retryable", "fatal", "other"}
HandlePcs == {"idle", "checked", "cooldown", "moderating", "prepared", "calling",
              "noticing", "retryDelay", "done"}
HandleResults == {"none", "busyNotice", "blocked", "Busy", "ok", "rethrown",
                  "SessionUnusable", "thrown", "noticeFailed", "What"}

\* Chat messages that mention the bot, their authors, and where handleMessage
\* is for each of them (its awaits).
Messages == 1 .. MaxMessages
Authors == {"u1", "u2"}
MessagePcs == {"none", "fetching", "typing", "executing", "replying",
               "errorReply", "cleanup", "updating", "done"}
MessageResults == {"none", "busy", "blocked", "ok", "failed"}

\* Messages on the queue of the database worker. A body has the fields the
\* consumer reads (action, collection, id, data) and the field the bot-side
\* helpers write (type); Absent is a field that the body does not have.
DbMessages == 1 .. MaxDbMessages
Absent == "absent"
\* Keys of the CollectionNames object, and a name that is not among them.
CollectionNames == {"users"}
UnknownCollection == "bogus"
Ids == {"i1"}
\* The columns of a row other than id, taken as one value.
DataValues == {"d1", "d2"}
NoRow == "norow"
\* null, as a value that can be compared with the objects.
NoEntry == [response |-> "null", columns |-> "null"]
Keys == CollectionNames \X Ids
Bodies == [action : {"update", "insert", "remove", Absent},
           type : {"update", "insert", "remove", Absent},
           collection : CollectionNames \cup {UnknownCollection, Absent},
           id : Ids \cup {Absent},
           data : DataValues \cup {Absent}]
\* An object held in the cache or in the local variable existing: the keys
\* of a query response (error, data, status, ...) with data = response, or
\* "none" if the object has no such keys, and the columns it has at its top
\* level, or "none".
Objects == [response : DataValues \cup {NoRow, "none"},
            columns : DataValues \cup {"none"}]
DbPcs == {"unsent", "queued", "getCache", "select", "dbInsert", "dbUpdate",
          "setCacheExisting", "setCacheMerged", "setCacheRow", "delete",
          "delCache", "done"}

VARIABLES
    workers,           \* keys of the workers map (worker threads created)
    created,           \* workerId -> number of createWorker(workerId) calls
    alive,             \* created worker threads that are still running
    identifyRequests,  \* bucket -> queue of resolvers, each named by its shard
    tellPromise,       \* shard -> "none" | "pending" | "resolved"
    requestOrder,      \* shard -> position of its enqueue in its bucket (0: never)
    spawnIdx,          \* bucket -> index in SpawnQueue(b) of the next shard to start
    msgIdentifyShard,  \* IDENTIFY_SHARD messages in flight to the workers
    msgToIdentify,     \* TO_IDENTIFY messages in flight to the manager
    requesting,        \* shard -> "none" | "waiting" | "granted" (await requestIdentify)
    msgAllowIdentify,  \* ALLOW_IDENTIFY messages in flight to the workers
    msgShardOn,        \* shard -> number of SHARD_ON messages in flight
    delaying,          \* shard -> number of SHARD_ON handlers inside delay()
    released,          \* shards one of whose SHARD_ON handlers has completed
    shardState,        \* shard -> state of the shard inside its worker
    rejected,          \* shards whose identify the gateway has rejected
    hung,              \* shards whose transport hangs while identifying
    faults,            \* number of environment faults so far
    \* worker assignment, computed for one configuration
    planPc,            \* "off" | "config" | "created"
    cfgShards,         \* connection.shards
    cfgPerWorker,      \* config.gateway.shardsPerWorker
    planWorkers,       \* the totalWorkers option handed to createGatewayManager
    plan,              \* plan[s + 1]: the worker that shard s is handed to
    \* control channel (express application of the gateway process)
    configAuth,        \* config.gateway.auth
    httpPc,            \* "idle" | "received" | "awaiting" | "done"
    httpReq,           \* the request: headers.authorization and body.type
    httpStatus,        \* status of the response sent (0: none sent)
    httpResponses,     \* number of responses sent for the request
    requestMembersCalls, \* number of calls of gateway.requestMembers
    httpHandled,       \* number of requests received so far
    \* bot status (cluster manager and the clusters' chat handler)
    managerStatus,     \* manager.bot.status.type
    lastChat,          \* the chat message handled last: cluster, status set
                       \* on the manager when it was handled, what was done
    generateCalls,     \* number of calls of conversation.generate
    chatsHandled,      \* number of chat messages handled so far
    \* reload (restart of all clusters) and the two generations
    reloadPc,          \* "idle" | "restart" (evalOnManager sent) | "done"
    reloadReply,       \* text of the reply to the reload command
    sessionRemaining,  \* sessionStartLimit.remaining of the bot token
    genStatus,         \* generation -> "absent" | "starting" | "live" | "stopping" | "stopped"
    genShard,          \* generation -> shard -> state of that generation's shard
    genInFlight,       \* generation -> bucket -> in-flight flag of its own scheduler
    genDrops,          \* number of socket closures of the old generation
    \* one conversation and the Generator.handle invocations that use it
    generating,        \* conversation.generating
    hpc,               \* invocation -> where it is (HandlePcs)
    tries,             \* invocation -> tries of its Conversation.generate call
    calls,             \* invocation -> calls of manager.session.generate
    lastError,         \* invocation -> kind of the error being handled
    result,            \* invocation -> how it ended (HandleResults)
    resetPc,           \* "idle" | "awaiting": Conversation.reset in progress
    resets,            \* number of Conversation.reset calls so far
    \* handleMessage of the chat handler
    runningGenerations, \* the set of author ids
    mpc,               \* message -> where handleMessage is (MessagePcs)
    mauthor,           \* message -> message.authorId ("none": not received)
    mresult,           \* message -> how handleMessage ended (MessageResults)
    propagating,       \* message -> an error thrown in the catch block is pending
    \* database worker: the table rows, the cache, the consumed messages
    store,             \* key -> the row of the table (NoRow: none)
    cache,             \* key -> the cached object (NoEntry: none)
    dbBody,            \* message -> message.body
    dbpc,              \* message -> where its handler is (DbPcs)
    existing,          \* message -> the local variable existing
    dbReply            \* message -> "none" | "success" | "failure"

gatewayVars ==
    << workers, created, alive, identifyRequests, tellPromise, requestOrder, spawnIdx,
       msgIdentifyShard, msgToIdentify, requesting, msgAllowIdentify,
       msgShardOn, delaying, released, shardState, rejected, hung, faults >>

\* The state outside the gateway manager process.
planVars == << planPc, cfgShards, cfgPerWorker, planWorkers, plan >>

httpVars == << configAuth, httpPc, httpReq, httpStatus, httpResponses,
              requestMembersCalls, httpHandled >>

statusVars == << managerStatus, lastChat, generateCalls, chatsHandled >>

reloadVars == << reloadPc, reloadReply, sessionRemaining, genStatus, genShard,
                genInFlight, genDrops >>

convVars == << generating, hpc, tries, calls, lastError, result,
              resetPc, resets >>

\* The state of the application: conversations, chat handler, database.
chatVars == << runningGenerations, mpc, mauthor, mresult, propagating >>

dbVars == << store, cache, dbBody, dbpc, existing, dbReply >>

appVars == << convVars, chatVars, dbVars >>

\* The state of the gateway, control channel, status and reload parts.
infraVars == << gatewayVars, planVars, httpVars, statusVars, reloadVars >>

\* Everything but the conversation.
nonConvVars == << infraVars, chatVars, dbVars >>

auxVars == << planVars, httpVars, statusVars, reloadVars, appVars >>

vars == << gatewayVars, auxVars >>

TypeOK ==
    /\ workers \subseteq WorkerIds
    /\ created \in [WorkerIds -> 0 .. TotalShards]
    /\ alive \subseteq workers
    /\ identifyRequests \in [Buckets -> Seq(Shards)]
    /\ tellPromise \in [Shards -> {"none", "pending", "resolved"}]
    /\ requestOrder \in [Shards -> 0 .. TotalShards]
    /\ spawnIdx \in [Buckets -> 1 .. (TotalShards + 1)]
    /\ msgIdentifyShard \subseteq Shards
    /\ msgToIdentify \subseteq Shards
    /\ requesting \in [Shards -> {"none", "waiting", "granted"}]
    /\ msgAllowIdentify \subseteq Shards
    /\ msgShardOn \in [Shards -> Nat]
    /\ delaying \in [Shards -> Nat]
    /\ released \subseteq Shards
    /\ shardState \in [Shards -> {"Disconnected", "PendingIdentify", "Identifying", "Ready"}]
    /\ rejected \subseteq Shards
    /\ hung \subseteq Shards
    /\ faults \in 0 .. MaxFaults
    /\ planPc \in {"off", "config", "created"}
    /\ cfgShards \in 0 .. MaxCfgShards
    /\ cfgPerWorker \in 0 .. MaxCfgPerWorker
    /\ planWorkers \in 0 .. MaxCfgShards
    /\ plan \in Seq(0 .. MaxCfgShards)
    /\ configAuth \in AuthValues
    /\ httpPc \in {"idle", "received", "awaiting", "done"}
    /\ httpReq \in [authorization : HeaderValues, type : BodyTypes]
    /\ httpStatus \in {0, 401, 404, 500}
    /\ httpResponses \in 0 .. 1
    /\ requestMembersCalls \in 0 .. MaxRequests
    /\ httpHandled \in 0 .. MaxRequests
    /\ managerStatus \in StatusTypes
    /\ lastChat \in [cluster : Clusters, set : StatusTypes,
                      done : {"none", "notice", "generate", "other"}]
    /\ generateCalls \in 0 .. MaxChats
    /\ chatsHandled \in 0 .. MaxChats
    /\ reloadPc \in {"idle", "restart", "done"}
    /\ reloadReply \in {"none", "Restarting all clusters", "RateLimitExhausted"}
    /\ sessionRemaining \in 0 .. MaxRemaining
    /\ genStatus \in [Gens -> {"absent", "starting", "live", "stopping", "stopped"}]
    /\ genShard \in [Gens -> [Shards -> ShardStates]]
    /\ genInFlight \in [Gens -> [Buckets -> BOOLEAN]]
    /\ genDrops \in 0 .. MaxFaults
    /\ generating \in BOOLEAN
    /\ hpc \in [Handlers -> HandlePcs]
    /\ tries \in [Handlers -> 0 .. CONVERSATION_ERROR_RETRY_MAX_TRIES]
    /\ calls \in [Handlers -> 0 .. CONVERSATION_ERROR_RETRY_MAX_TRIES]
    /\ lastError \in [Handlers -> ErrorKinds \cup {"none"}]
    /\ result \in [Handlers -> HandleResults]
    /\ resetPc \in {"idle", "awaiting"}
    /\ resets \in 0 .. MaxResets
    /\ runningGenerations \subseteq Authors
    /\ mpc \in [Messages -> MessagePcs]
    /\ mauthor \in [Messages -> Authors \cup {"none"}]
    /\ mresult \in [Messages -> MessageResults]
    /\ propagating \in [Messages -> BOOLEAN]
    /\ store \in [Keys -> DataValues \cup {NoRow}]
    /\ cache \in [Keys -> Objects \cup {NoEntry}]
    /\ dbBody \in [DbMessages -> Bodies]
    /\ dbpc \in [DbMessages -> DbPcs]
    /\ existing \in [DbMessages -> Objects \cup {NoEntry}]
    /\ dbReply \in [DbMessages -> {"none", "success", "failure"}]

\* State after the module has been loaded: no worker, prepared empty buckets.
GatewayInit ==
    /\ workers = {}
    /\ created = [w \in WorkerIds |-> 0]
    /\ alive = {}
    /\ identifyRequests = [b \in Buckets |-> << >>]
    /\ tellPromise = [s \in Shards |-> "none"]
    /\ requestOrder = [s \in Shards |-> 0]
    /\ spawnIdx = [b \in Buckets |-> 1]
    /\ msgIdentifyShard = {}
    /\ msgToIdentify = {}
    /\ requesting = [s \in Shards |-> "none"]
    /\ msgAllowIdentify = {}
    /\ msgShardOn = [s \in Shards |-> 0]
    /\ delaying = [s \in Shards |-> 0]
    /\ released = {}
    /\ shardState = [s \in Shards |-> "Disconnected"]
    /\ rejected = {}
    /\ hung = {}
    /\ faults = 0

\* No worker assignment is being computed.
PlanOff ==
    /\ planPc = "off"
    /\ cfgShards = 0
    /\ cfgPerWorker = 0
    /\ planWorkers = 0
    /\ plan = << >>

\* The control channel with no request.
HttpOff ==
    /\ httpPc = "idle"
    /\ httpReq = [authorization |-> "unset", type |-> "unset"]
    /\ httpStatus = 0
    /\ httpResponses = 0
    /\ requestMembersCalls = 0
    /\ httpHandled = 0

\* The bot is operational and no chat message has been handled.
StatusOff ==
    /\ managerStatus = "operational"
    /\ lastChat = [cluster |-> 0, set |-> "operational", done |-> "none"]
    /\ generateCalls = 0
    /\ chatsHandled = 0

\* One generation is live with every shard Ready, no reload was asked for.
ReloadIdle ==
    /\ reloadPc = "idle"
    /\ reloadReply = "none"
    /\ genStatus = [g \in Gens |-> IF g = "old" THEN "live" ELSE "absent"]
    /\ genShard = [g \in Gens |->
                      [s \in Shards |-> IF g = "old" THEN "Ready" ELSE "Disconnected"]]
    /\ genInFlight = [g \in Gens |-> [b \in Buckets |-> FALSE]]
    /\ genDrops = 0

ReloadOff == ReloadIdle /\ sessionRemaining = MaxRemaining

\* An unlocked conversation, no message being handled.
ConvOff ==
    /\ generating = FALSE
    /\ hpc = [h \in Handlers |-> "idle"]
    /\ tries = [h \in Handlers |-> 0]
    /\ calls = [h \in Handlers |-> 0]
    /\ lastError = [h \in Handlers |-> "none"]
    /\ result = [h \in Handlers |-> "none"]
    /\ resetPc = "idle"
    /\ resets = 0

\* runningGenerations = new Set(), no message received.
ChatOff ==
    /\ runningGenerations = {}
    /\ mpc = [m \in Messages |-> "none"]
    /\ mauthor = [m \in Messages |-> "none"]
    /\ mresult = [m \in Messages |-> "none"]
    /\ propagating = [m \in Messages |-> FALSE]

\* No message published, an empty cache.
DbIdle ==
    /\ cache = [k \in Keys |-> NoEntry]
    /\ dbBody = [m \in DbMessages |->
                   [action |-> Absent, type |-> Absent, collection |-> Absent,
                    id |-> Absent, data |-> Absent]]
    /\ dbpc = [m \in DbMessages |-> "unsent"]
    /\ existing = [m \in DbMessages |-> NoEntry]
    /\ dbReply = [m \in DbMessages |-> "none"]

DbOff == DbIdle /\ store = [k \in Keys |-> NoRow]

AppOff == ConvOff /\ ChatOff /\ DbOff

Init ==
    /\ GatewayInit /\ PlanOff /\ configAuth = "k1" /\ HttpOff /\ StatusOff /\ ReloadOff
    /\ AppOff

\* Number of requests enqueued so far on the bucket of shardId.
Enqueued(b) == Cardinality({s \in Shards : concurrency(s) = b /\ requestOrder[s] > 0})

\* -------------------------------------------------------------- manager
\* Mutant: the lookup in the workers map is missing, every call creates a
\* worker thread and stores it under workerId.
tellWorkerToIdentifyNoLookup(workerId, shardId) ==
    /\ workers' = workers \cup {workerId}
    /\ created' = [created EXCEPT ![workerId] = @ + 1]
    /\ alive' = alive \cup {workerId}
    /\ IF concurrency(shardId) \in Buckets
       THEN /\ identifyRequests' =
                  [identifyRequests EXCEPT ![concurrency(shardId)] = Append(@, shardId)]
            /\ tellPromise' = [tellPromise EXCEPT ![shardId] = "pending"]
            /\ requestOrder' =
                  [requestOrder EXCEPT ![shardId] = Enqueued(concurrency(shardId)) + 1]
            /\ msgIdentifyShard' = msgIdentifyShard \cup {shardId}
       ELSE UNCHANGED << identifyRequests, tellPromise, requestOrder, msgIdentifyShard >>

\* gateway.tellWorkerToIdentify(workerId, shardId, bucketId)
tellWorkerToIdentify(workerId, shardId) ==
    /\ workers' = workers \cup {workerId}
    /\ created' = IF workerId \in workers THEN created
                  ELSE [created EXCEPT ![workerId] = @ + 1]
    /\ alive' = IF workerId \in workers THEN alive ELSE alive \cup {workerId}
    /\ IF concurrency(shardId) \in Buckets
       THEN /\ identifyRequests' =
                  [identifyRequests EXCEPT ![concurrency(shardId)] = Append(@, shardId)]
            /\ tellPromise' = [tellPromise EXCEPT ![shardId] = "pending"]
            /\ requestOrder' =
                  [requestOrder EXCEPT ![shardId] = Enqueued(concurrency(shardId)) + 1]
            /\ msgIdentifyShard' =
                  IF workerId \in alive' THEN msgIdentifyShard \cup {shardId}
                  ELSE msgIdentifyShard
       ELSE UNCHANGED << identifyRequests, tellPromise, requestOrder, msgIdentifyShard >>

\* One iteration of the per-bucket loop of gateway.spawnShards: the next shard
\* of the bucket is started once the promise of the previous one is resolved.
SpawnShards(b) ==
    /\ spawnIdx[b] <= Len(SpawnQueue(b))
    /\ spawnIdx[b] > 1 => tellPromise[SpawnQueue(b)[spawnIdx[b] - 1]] = "resolved"
    /\ tellWorkerToIdentify(calculateWorkerId(SpawnQueue(b)[spawnIdx[b]]),
                            SpawnQueue(b)[spawnIdx[b]])
    /\ spawnIdx' = [spawnIdx EXCEPT ![b] = @ + 1]
    /\ UNCHANGED << msgToIdentify, requesting, msgAllowIdentify, msgShardOn, delaying,
                    released, shardState, rejected, hung, faults >>
    /\ UNCHANGED auxVars

\* Mutant: ALLOW_IDENTIFY is posted on receipt, the await is missing.
ListenToIdentifyNoAwait(s) ==
    /\ s \in msgToIdentify
    /\ msgToIdentify' = msgToIdentify \ {s}
    /\ msgAllowIdentify' =
          IF calculateWorkerId(s) \in alive THEN msgAllowIdentify \cup {s}
          ELSE msgAllowIdentify
    /\ UNCHANGED << workers, created, alive, identifyRequests, tellPromise, requestOrder, spawnIdx,
                    msgIdentifyShard, requesting, msgShardOn, delaying, released,
                    shardState, rejected, hung, faults >>
    /\ UNCHANGED auxVars

\* workerListener, case "TO_IDENTIFY", up to the await of gateway.requestIdentify
ListenToIdentify(s) ==
    /\ s \in msgToIdentify
    /\ msgToIdentify' = msgToIdentify \ {s}
    /\ requesting' = [requesting EXCEPT ![s] = "waiting"]
    /\ UNCHANGED << workers, created, alive, identifyRequests, tellPromise, requestOrder, spawnIdx,
                    msgIdentifyShard, msgAllowIdentify, msgShardOn, delaying, released,
                    shardState, rejected, hung, faults >>
    /\ UNCHANGED auxVars

\* gateway.requestIdentify(shardId) resolves: the library grants the request.
RequestIdentifyGranted(s) ==
    /\ requesting[s] = "waiting"
    /\ requesting' = [requesting EXCEPT ![s] = "granted"]
    /\ UNCHANGED << workers, created, alive, identifyRequests, tellPromise, requestOrder, spawnIdx,
                    msgIdentifyShard, msgToIdentify, msgAllowIdentify, msgShardOn,
                    delaying, released, shardState, rejected, hung, faults >>
    /\ UNCHANGED auxVars

\* workerListener, case "TO_IDENTIFY", after the await: post ALLOW_IDENTIFY
\* (a message posted to a thread that has exited is dropped).
ListenAllowIdentify(s) ==
    /\ requesting[s] = "granted"
    /\ requesting' = [requesting EXCEPT ![s] = "none"]
    /\ msgAllowIdentify' =
          IF calculateWorkerId(s) \in alive THEN msgAllowIdentify \cup {s}
          ELSE msgAllowIdentify
    /\ UNCHANGED << workers, created, alive, identifyRequests, tellPromise, requestOrder, spawnIdx,
                    msgIdentifyShard, msgToIdentify, msgShardOn, delaying, released,
                    shardState, rejected, hung, faults >>
    /\ UNCHANGED auxVars

\* workerListener, case "SHARD_ON", up to the await of delay(spawnShardDelay)
ListenShardOn(s) ==
    /\ msgShardOn[s] > 0
    /\ msgShardOn' = [msgShardOn EXCEPT ![s] = @ - 1]
    /\ delaying' = [delaying EXCEPT ![s] = @ + 1]
    /\ UNCHANGED << workers, created, alive, identifyRequests, tellPromise, requestOrder, spawnIdx,
                    msgIdentifyShard, msgToIdentify, requesting, msgAllowIdentify,
                    released, shardState, rejected, hung, faults >>
    /\ UNCHANGED auxVars

\* Mutant: pop() in place of shift(): the newest request is resolved.
popAndResolve(shardId) ==
    LET b == concurrency(shardId)
        q == identifyRequests[b]
    IN  IF q = << >>
        THEN UNCHANGED << identifyRequests, tellPromise >>
        ELSE /\ identifyRequests' = [identifyRequests EXCEPT ![b] = SubSeq(q, 1, Len(q) - 1)]
             /\ tellPromise' = [tellPromise EXCEPT ![q[Len(q)]] = "resolved"]

\* Mutant: the head is resolved and stays in the queue ([0]?.() for shift()?.()).
peekAndResolve(shardId) ==
    LET b == concurrency(shardId)
        q == identifyRequests[b]
    IN  IF q = << >>
        THEN UNCHANGED << identifyRequests, tellPromise >>
        ELSE /\ identifyRequests' = identifyRequests
             /\ tellPromise' = [tellPromise EXCEPT ![Head(q)] = "resolved"]

\* Mutant: the head is removed and never called (shift() for shift()?.()).
shiftOnly(shardId) ==
    LET b == concurrency(shardId)
        q == identifyRequests[b]
    IN  IF q = << >>
        THEN UNCHANGED << identifyRequests, tellPromise >>
        ELSE /\ identifyRequests' = [identifyRequests EXCEPT ![b] = Tail(q)]
             /\ tellPromise' = tellPromise

\* gateway.buckets.get(concurrency(shardId))?.identifyRequests.shift()?.()
shiftAndResolve(shardId) ==
    LET b == concurrency(shardId)
        q == identifyRequests[b]
    IN  IF q = << >>
        THEN UNCHANGED << identifyRequests, tellPromise >>
        ELSE /\ identifyRequests' = [identifyRequests EXCEPT ![b] = Tail(q)]
             /\ tellPromise' = [tellPromise EXCEPT ![Head(q)] = "resolved"]

\* workerListener, case "SHARD_ON", after the delay
ListenShardOnResolve(s) ==
    /\ delaying[s] > 0
    /\ delaying' = [delaying EXCEPT ![s] = @ - 1]
    /\ shiftAndResolve(s)
    /\ released' = released \cup {s}
    /\ UNCHANGED << workers, created, alive, requestOrder, spawnIdx, msgIdentifyShard,
                    msgToIdentify, requesting, msgAllowIdentify, msgShardOn,
                    shardState, rejected, hung, faults >>
    /\ UNCHANGED auxVars

\* --------------------------------------------------------------- worker
\* Worker thread, on IDENTIFY_SHARD: the shard leaves Disconnected and asks
\* the manager for a slot (Disconnected -> PendingIdentify, emits TO_IDENTIFY).
WorkerIdentifyShard(s) ==
    /\ s \in msgIdentifyShard
    /\ shardState[s] = "Disconnected"
    /\ msgIdentifyShard' = msgIdentifyShard \ {s}
    /\ shardState' = [shardState EXCEPT ![s] = "PendingIdentify"]
    /\ msgToIdentify' = msgToIdentify \cup {s}
    /\ UNCHANGED << workers, created, alive, identifyRequests, tellPromise, requestOrder, spawnIdx,
                    requesting, msgAllowIdentify, msgShardOn, delaying, released,
                    rejected, hung, faults >>
    /\ UNCHANGED auxVars

\* Worker thread, on ALLOW_IDENTIFY: PendingIdentify -> Identifying (sends OP 2).
WorkerAllowIdentify(s) ==
    /\ s \in msgAllowIdentify
    /\ shardState[s] = "PendingIdentify"
    /\ msgAllowIdentify' = msgAllowIdentify \ {s}
    /\ shardState' = [shardState EXCEPT ![s] = "Identifying"]
    /\ UNCHANGED << workers, created, alive, identifyRequests, tellPromise, requestOrder, spawnIdx,
                    msgIdentifyShard, msgToIdentify, requesting, msgShardOn, delaying,
                    released, rejected, hung, faults >>
    /\ UNCHANGED auxVars

\* The gateway dispatches READY: Identifying -> Ready, emits SHARD_ON.
GatewayReady(s) ==
    /\ shardState[s] = "Identifying"
    /\ s \notin hung
    /\ shardState' = [shardState EXCEPT ![s] = "Ready"]
    /\ msgShardOn' = [msgShardOn EXCEPT ![s] = @ + 1]
    /\ UNCHANGED << workers, created, alive, identifyRequests, tellPromise, requestOrder, spawnIdx,
                    msgIdentifyShard, msgToIdentify, requesting, msgAllowIdentify,
                    delaying, released, rejected, hung, faults >>
    /\ UNCHANGED auxVars

\* ---------------------------------------------------------- environment
\* The gateway rejects the IDENTIFY: Identifying -> Disconnected, and the
\* shard asks again (Disconnected -> PendingIdentify, emits TO_IDENTIFY).
GatewayReject(s) ==
    /\ faults < MaxFaults
    /\ shardState[s] = "Identifying"
    /\ s \notin hung
    /\ faults' = faults + 1
    /\ rejected' = rejected \cup {s}
    /\ shardState' = [shardState EXCEPT ![s] = "PendingIdentify"]
    /\ msgToIdentify' = msgToIdentify \cup {s}
    /\ UNCHANGED << workers, created, alive, identifyRequests, tellPromise, requestOrder, spawnIdx,
                    msgIdentifyShard, requesting, msgAllowIdentify, msgShardOn, delaying,
                    released, hung >>
    /\ UNCHANGED auxVars

\* The socket of a Ready shard closes: Ready -> Disconnected -> PendingIdentify.
ShardReconnect(s) ==
    /\ faults < MaxFaults
    /\ shardState[s] = "Ready"
    /\ faults' = faults + 1
    /\ shardState' = [shardState EXCEPT ![s] = "PendingIdentify"]
    /\ msgToIdentify' = msgToIdentify \cup {s}
    /\ UNCHANGED << workers, created, alive, identifyRequests, tellPromise, requestOrder, spawnIdx,
                    msgIdentifyShard, requesting, msgAllowIdentify, msgShardOn, delaying,
                    released, rejected, hung >>
    /\ UNCHANGED auxVars

\* The transport of an identifying shard hangs: no READY, no close.
TransportHang(s) ==
    /\ faults < MaxFaults
    /\ shardState[s] = "Identifying"
    /\ s \notin hung
    /\ faults' = faults + 1
    /\ hung' = hung \cup {s}
    /\ UNCHANGED << workers, created, alive, identifyRequests, tellPromise, requestOrder, spawnIdx,
                    msgIdentifyShard, msgToIdentify, requesting, msgAllowIdentify,
                    msgShardOn, delaying, released, shardState, rejected >>
    /\ UNCHANGED auxVars

OwnedShards(w) == {s \in Shards : calculateWorkerId(s) = w}

\* A worker thread exits: its shards lose their sockets, messages posted to it
\* are lost. createWorker registers a "message" listener only, so nothing of
\* the manager changes.
WorkerCrash(w) ==
    /\ faults < MaxFaults
    /\ w \in alive
    /\ faults' = faults + 1
    /\ alive' = alive \ {w}
    /\ shardState' = [s \in Shards |->
                        IF s \in OwnedShards(w) THEN "Disconnected" ELSE shardState[s]]
    /\ msgIdentifyShard' = msgIdentifyShard \ OwnedShards(w)
    /\ msgAllowIdentify' = msgAllowIdentify \ OwnedShards(w)
    /\ hung' = hung \ OwnedShards(w)
    /\ UNCHANGED << workers, created, identifyRequests, tellPromise, requestOrder, spawnIdx,
                    msgToIdentify, requesting, msgShardOn, delaying, released, rejected >>
    /\ UNCHANGED auxVars

\* The shards of one bucket (the bucket of shard 0): the handlers touch the
\* queue of concurrency(shardId) only, so the buckets are independent.
HookShards == {s \in Shards : concurrency(s) = concurrency(0)}

\* gateway.tellWorkerToIdentify called through the gateway object by any
\* caller, in any order and without waiting for the previous promise.
TellCall(s) ==
    /\ s \in HookShards
    /\ tellPromise[s] = "none"
    /\ tellWorkerToIdentify(calculateWorkerId(s), s)
    /\ UNCHANGED << spawnIdx, msgToIdentify, requesting, msgAllowIdentify, msgShardOn,
                    delaying, released, shardState, rejected, hung, faults >>
    /\ UNCHANGED auxVars

\* ---------------------------------------------------- worker assignment
\* rest.getGatewayBot() and the configuration file supply the two numbers.
PlanInit ==
    /\ GatewayInit
    /\ planPc = "config"
    /\ cfgShards \in 1 .. MaxCfgShards
    /\ cfgPerWorker \in 1 .. MaxCfgPerWorker
    /\ planWorkers = 0
    /\ plan = << >>
    /\ configAuth = "k1"
    /\ HttpOff
    /\ StatusOff
    /\ ReloadOff
    /\ AppOff

\* createGatewayManager({ ..., totalShards, shardsPerWorker, totalWorkers })
CreateGatewayManager ==
    /\ planPc = "config"
    /\ planPc' = "created"
    /\ planWorkers' = totalWorkers(cfgShards, cfgPerWorker)
    /\ UNCHANGED << cfgShards, cfgPerWorker, plan >>
    /\ UNCHANGED << gatewayVars, httpVars, statusVars, reloadVars, appVars >>

\* The manager hands the next shard (ascending) to its worker.
PrepareShard ==
    /\ planPc = "created"
    /\ Len(plan) < cfgShards
    /\ plan' = Append(plan, workerIdOf(Len(plan), cfgPerWorker))
    /\ UNCHANGED << planPc, cfgShards, cfgPerWorker, planWorkers >>
    /\ UNCHANGED << gatewayVars, httpVars, statusVars, reloadVars, appVars >>

PlanNext ==
    \/ CreateGatewayManager
    \/ PrepareShard

PlanSpec == PlanInit /\ [][PlanNext]_vars

\* ------------------------------------------------------ control channel
HttpInit ==
    /\ GatewayInit
    /\ PlanOff
    /\ configAuth \in AuthValues
    /\ HttpOff
    /\ StatusOff
    /\ ReloadOff
    /\ AppOff

\* A request arrives (app.all("/*", ...)), after the previous one is done.
HttpRequest(authorization, type) ==
    /\ httpPc \in {"idle", "done"}
    /\ httpHandled < MaxRequests
    /\ httpHandled' = httpHandled + 1
    /\ httpReq' = [authorization |-> authorization, type |-> type]
    /\ httpPc' = "received"
    /\ httpStatus' = 0
    /\ httpResponses' = 0
    /\ UNCHANGED << configAuth, requestMembersCalls >>
    /\ UNCHANGED << gatewayVars, planVars, statusVars, reloadVars, appVars >>

\* Mutant: only the comparison, the test of the configured key is missing.
UnauthorizedMismatchOnly(auth, authorization) == auth # authorization

\* !config.gateway.auth || config.gateway.auth !== req.headers.authorization
Unauthorized(auth, authorization) ==
    auth \in {"unset", ""} \/ auth # authorization

\* The handler up to its first await: the authorization test and the switch
\* on req.body.type.
HttpHandler ==
    /\ httpPc = "received"
    /\ IF Unauthorized(configAuth, httpReq.authorization)
       THEN /\ httpStatus' = 401
            /\ httpResponses' = httpResponses + 1
            /\ httpPc' = "done"
            /\ UNCHANGED requestMembersCalls
       ELSE IF httpReq.type = "REQUEST_MEMBERS"
       THEN /\ requestMembersCalls' = requestMembersCalls + 1
            /\ httpPc' = "awaiting"
            /\ UNCHANGED << httpStatus, httpResponses >>
       ELSE /\ httpStatus' = 404
            /\ httpResponses' = httpResponses + 1
            /\ httpPc' = "done"
            /\ UNCHANGED requestMembersCalls
    /\ UNCHANGED << configAuth, httpReq, httpHandled >>
    /\ UNCHANGED << gatewayVars, planVars, statusVars, reloadVars, appVars >>

\* gateway.requestMembers resolves: the handler returns its value.
RequestMembersReturns ==
    /\ httpPc = "awaiting"
    /\ httpPc' = "done"
    /\ UNCHANGED << configAuth, httpReq, httpStatus, httpResponses,
                    requestMembersCalls, httpHandled >>
    /\ UNCHANGED << gatewayVars, planVars, statusVars, reloadVars, appVars >>

\* gateway.requestMembers throws: catch, res.status(500).json(error).
RequestMembersThrows ==
    /\ httpPc = "awaiting"
    /\ httpStatus' = 500
    /\ httpResponses' = httpResponses + 1
    /\ httpPc' = "done"
    /\ UNCHANGED << configAuth, httpReq, requestMembersCalls, httpHandled >>
    /\ UNCHANGED << gatewayVars, planVars, statusVars, reloadVars, appVars >>

HttpNext ==
    \/ \E a \in HeaderValues : \E ty \in BodyTypes : HttpRequest(a, ty)
    \/ HttpHandler
    \/ RequestMembersReturns
    \/ RequestMembersThrows

HttpSpec == HttpInit /\ [][HttpNext]_vars

\* ------------------------------------------------------------ bot status
\* Bot.status(): the read of manager.bot.status is commented out, the method
\* returns { type: "operational", since: this.since }.
status == [type |-> "operational"]

\* Bot.changeStatus(status) called on cluster c.
changeStatus(c, type) ==
    /\ managerStatus' = IF status.type = type THEN managerStatus ELSE type
    /\ UNCHANGED << lastChat, generateCalls, chatsHandled >>
    /\ UNCHANGED << gatewayVars, planVars, httpVars, reloadVars, appVars >>

\* Generator.handle on cluster c for a message that mentions the bot: the
\* maintenance test, then (proceeds) the path that ends in
\* conversation.generate or one of the later early returns.
GeneratorHandle(c, proceeds) ==
    /\ chatsHandled < MaxChats
    /\ chatsHandled' = chatsHandled + 1
    /\ IF status.type = "maintenance"
       THEN /\ lastChat' = [cluster |-> c, set |-> managerStatus, done |-> "notice"]
            /\ UNCHANGED generateCalls
       ELSE IF proceeds
       THEN /\ lastChat' = [cluster |-> c, set |-> managerStatus, done |-> "generate"]
            /\ generateCalls' = generateCalls + 1
       ELSE /\ lastChat' = [cluster |-> c, set |-> managerStatus, done |-> "other"]
            /\ UNCHANGED generateCalls
    /\ UNCHANGED managerStatus
    /\ UNCHANGED << gatewayVars, planVars, httpVars, reloadVars, appVars >>

StatusNext ==
    \/ \E c \in Clusters : \E ty \in StatusTypes : changeStatus(c, ty)
    \/ \E c \in Clusters : \E pr \in BOOLEAN : GeneratorHandle(c, pr)

StatusSpec == Init /\ [][StatusNext]_vars

\* ---------------------------------------------------------------- reload
ReloadInit ==
    /\ GatewayInit
    /\ PlanOff
    /\ configAuth = "k1"
    /\ HttpOff
    /\ StatusOff
    /\ ReloadIdle
    /\ sessionRemaining \in 0 .. MaxRemaining
    /\ AppOff

\* Developer command, action "reload": edit the reply, flush the database
\* queue, evalOnManager("this.bot.restart()").
Reload ==
    /\ reloadPc = "idle"
    /\ reloadReply' = "Restarting all clusters"
    /\ reloadPc' = "restart"
    /\ UNCHANGED << sessionRemaining, genStatus, genShard, genInFlight, genDrops >>
    /\ UNCHANGED << gatewayVars, planVars, httpVars, statusVars, appVars >>

\* The manager runs bot.restart(): a new generation is created next to the
\* old one, with its own scheduler, and its shards ask to identify.
ManagerRestart ==
    /\ reloadPc = "restart"
    /\ reloadPc' = "done"
    /\ genStatus' = [genStatus EXCEPT !["new"] = "starting"]
    /\ genShard' = [genShard EXCEPT !["new"] = [s \in Shards |-> "PendingIdentify"]]
    /\ UNCHANGED << reloadReply, sessionRemaining, genInFlight, genDrops >>
    /\ UNCHANGED << gatewayVars, planVars, httpVars, statusVars, appVars >>

\* The scheduler of generation g grants its bucket to shard k, which sends
\* IDENTIFY: one session start of the token's budget is used.
GenGrant(g, k) ==
    /\ genStatus[g] \in {"starting", "live"}
    /\ genShard[g][k] = "PendingIdentify"
    /\ ~ genInFlight[g][concurrency(k)]
    /\ sessionRemaining > 0
    /\ sessionRemaining' = sessionRemaining - 1
    /\ genShard' = [genShard EXCEPT ![g][k] = "Identifying"]
    /\ genInFlight' = [genInFlight EXCEPT ![g][concurrency(k)] = TRUE]
    /\ UNCHANGED << reloadPc, reloadReply, genStatus, genDrops >>
    /\ UNCHANGED << gatewayVars, planVars, httpVars, statusVars, appVars >>

\* Shard k of generation g receives READY: its bucket is released.
GenReady(g, k) ==
    /\ genStatus[g] \in {"starting", "live"}
    /\ genShard[g][k] = "Identifying"
    /\ genShard' = [genShard EXCEPT ![g][k] = "Ready"]
    /\ genInFlight' = [genInFlight EXCEPT ![g][concurrency(k)] = FALSE]
    /\ UNCHANGED << reloadPc, reloadReply, sessionRemaining, genStatus, genDrops >>
    /\ UNCHANGED << gatewayVars, planVars, httpVars, statusVars, appVars >>

\* The socket of a Ready shard of the live old generation closes: the shard
\* asks its own scheduler for a slot again.
OldSocketClosed(k) ==
    /\ genDrops < MaxFaults
    /\ genStatus["old"] = "live"
    /\ genShard["old"][k] = "Ready"
    /\ genDrops' = genDrops + 1
    /\ genShard' = [genShard EXCEPT !["old"][k] = "PendingIdentify"]
    /\ UNCHANGED << reloadPc, reloadReply, sessionRemaining, genStatus, genInFlight >>
    /\ UNCHANGED << gatewayVars, planVars, httpVars, statusVars, appVars >>

\* Mutant: one Ready shard is taken for a generation that has come up.
SomeShardReady(g) == \E s \in Shards : genShard[g][s] = "Ready"

\* Generation g has reported every one of its shards Ready.
AllShardsReady(g) == \A s \in Shards : genShard[g][s] = "Ready"

\* The new generation is up: it becomes the live one and the old generation
\* is signalled to stop.
NewGenerationUp ==
    /\ genStatus["new"] = "starting"
    /\ AllShardsReady("new")
    /\ genStatus' = [genStatus EXCEPT !["new"] = "live", !["old"] = "stopping"]
    /\ UNCHANGED << reloadPc, reloadReply, sessionRemaining, genShard, genInFlight,
                    genDrops >>
    /\ UNCHANGED << gatewayVars, planVars, httpVars, statusVars, appVars >>

\* A shard of the stopping generation is closed and stays Disconnected; the
\* generation is stopped when its last shard is closed.
OldShardStopped(k) ==
    /\ genStatus["old"] = "stopping"
    /\ genShard["old"][k] # "Disconnected"
    /\ genShard' = [genShard EXCEPT !["old"][k] = "Disconnected"]
    /\ genInFlight' =
          IF genShard["old"][k] = "Identifying"
          THEN [genInFlight EXCEPT !["old"][concurrency(k)] = FALSE]
          ELSE genInFlight
    /\ genStatus' =
          IF \A s \in Shards \ {k} : genShard["old"][s] = "Disconnected"
          THEN [genStatus EXCEPT !["old"] = "stopped"]
          ELSE genStatus
    /\ UNCHANGED << reloadPc, reloadReply, sessionRemaining, genDrops >>
    /\ UNCHANGED << gatewayVars, planVars, httpVars, statusVars, appVars >>

ReloadNext ==
    \/ Reload
    \/ ManagerRestart
    \/ \E g \in Gens : \E k \in Shards : GenGrant(g, k)
    \/ \E g \in Gens : \E k \in Shards : GenReady(g, k)
    \/ \E k \in Shards : OldSocketClosed(k)
    \/ NewGenerationUp
    \/ \E k \in Shards : OldShardStopped(k)

ReloadSpec == ReloadInit /\ [][ReloadNext]_vars

\* ---------------------------------------------------------- conversation
\* Generator.handle for a message of the conversation's user, from the test
\* of conversation.generating (line 479) on. A request that is on cool-down
\* ends here without touching the conversation; "checked" is the await that
\* a negligible cool-down adds before the lock of line 507.
HandleStart(h, cooldown) ==
    /\ hpc[h] = "idle"
    /\ IF generating
       THEN /\ hpc' = [hpc EXCEPT ![h] = "done"]
            /\ result' = [result EXCEPT ![h] = "busyNotice"]
            /\ UNCHANGED generating
       ELSE IF cooldown
       THEN /\ hpc' = [hpc EXCEPT ![h] = "checked"]
            /\ UNCHANGED << generating, result >>
       ELSE /\ generating' = TRUE
            /\ hpc' = [hpc EXCEPT ![h] = "moderating"]
            /\ UNCHANGED result
    /\ UNCHANGED << tries, calls, lastError, resetPc, resets >>
    /\ UNCHANGED nonConvVars

\* Lines 506-509: conversation.generating = true, wait for the cool-down.
HandleCooldownWait(h) ==
    /\ hpc[h] = "checked"
    /\ generating' = TRUE
    /\ hpc' = [hpc EXCEPT ![h] = "cooldown"]
    /\ UNCHANGED << tries, calls, lastError, result, resetPc, resets >>
    /\ UNCHANGED nonConvVars

\* Lines 511-549: the wait is over, generating = false, and (no await in
\* between) generating = true for the moderation check.
HandleCooldownOver(h) ==
    /\ hpc[h] = "cooldown"
    /\ generating' = TRUE
    /\ hpc' = [hpc EXCEPT ![h] = "moderating"]
    /\ UNCHANGED << tries, calls, lastError, result, resetPc, resets >>
    /\ UNCHANGED nonConvVars

\* Lines 552-563: the moderation check is done, generating = false; a
\* flagged message stops the request.
HandleModerated(h, blocked) ==
    /\ hpc[h] = "moderating"
    /\ generating' = FALSE
    /\ IF blocked
       THEN /\ hpc' = [hpc EXCEPT ![h] = "done"]
            /\ result' = [result EXCEPT ![h] = "blocked"]
       ELSE /\ hpc' = [hpc EXCEPT ![h] = "prepared"]
            /\ UNCHANGED result
    /\ UNCHANGED << tries, calls, lastError, resetPc, resets >>
    /\ UNCHANGED nonConvVars

\* Conversation.generate, lines 299-322: Busy if locked, else lock and call
\* manager.session.generate for the first time.
Generate(h) ==
    /\ hpc[h] = "prepared"
    /\ IF generating
       THEN /\ hpc' = [hpc EXCEPT ![h] = "done"]
            /\ result' = [result EXCEPT ![h] = "Busy"]
            /\ UNCHANGED << generating, calls >>
       ELSE /\ generating' = TRUE
            /\ hpc' = [hpc EXCEPT ![h] = "calling"]
            /\ calls' = [calls EXCEPT ![h] = 1]
            /\ UNCHANGED result
    /\ UNCHANGED << tries, lastError, resetPc, resets >>
    /\ UNCHANGED nonConvVars

\* manager.session.generate returns data: the loop ends, lines 371-374.
SessionGenerateReturns(h) ==
    /\ hpc[h] = "calling"
    /\ generating' = FALSE
    /\ hpc' = [hpc EXCEPT ![h] = "done"]
    /\ result' = [result EXCEPT ![h] = "ok"]
    /\ UNCHANGED << tries, calls, lastError, resetPc, resets >>
    /\ UNCHANGED nonConvVars

\* Mutant: the test for the last try is off by one.
retriesExhaustedLate(n) == n > CONVERSATION_ERROR_RETRY_MAX_TRIES

\* tries === CONVERSATION_ERROR_RETRY_MAX_TRIES
retriesExhausted(n) == n = CONVERSATION_ERROR_RETRY_MAX_TRIES

\* manager.session.generate throws, lines 324-339: count the try; the last
\* one unlocks and rethrows, any other sends the retry notice.
SessionGenerateThrows(h, kind) ==
    /\ hpc[h] = "calling"
    /\ tries' = [tries EXCEPT ![h] = @ + 1]
    /\ IF retriesExhausted(tries[h] + 1)
       THEN /\ generating' = FALSE
            /\ UNCHANGED lastError
            /\ hpc' = [hpc EXCEPT ![h] = "done"]
            /\ result' = [result EXCEPT ![h] = "rethrown"]
       ELSE /\ hpc' = [hpc EXCEPT ![h] = "noticing"]
            /\ lastError' = [lastError EXCEPT ![h] = kind]
            /\ UNCHANGED << generating, result >>
    /\ UNCHANGED << calls, resetPc, resets >>
    /\ UNCHANGED nonConvVars

\* while (tries < CONVERSATION_ERROR_RETRY_MAX_TRIES && data === null): the
\* next call of manager.session.generate, or the end of the loop with no
\* data (lines 374-380).
LoopAgain(h) ==
    IF tries[h] < CONVERSATION_ERROR_RETRY_MAX_TRIES
    THEN /\ hpc' = [hpc EXCEPT ![h] = "calling"]
         /\ calls' = [calls EXCEPT ![h] = @ + 1]
         /\ UNCHANGED << generating, result >>
    ELSE /\ generating' = FALSE
         /\ hpc' = [hpc EXCEPT ![h] = "done"]
         /\ result' = [result EXCEPT ![h] = "What"]
         /\ UNCHANGED calls

\* manager.progress.notice resolved, lines 342-370: the branches on the error.
NoticeSent(h) ==
    /\ hpc[h] = "noticing"
    /\ IF lastError[h] = "unusable"
       THEN /\ hpc' = [hpc EXCEPT ![h] = "done"]
            /\ result' = [result EXCEPT ![h] = "SessionUnusable"]
            /\ UNCHANGED << generating, calls >>
       ELSE IF lastError[h] = "retryable"
       THEN /\ hpc' = [hpc EXCEPT ![h] = "retryDelay"]
            /\ UNCHANGED << generating, calls, result >>
       ELSE IF lastError[h] = "fatal"
       THEN /\ generating' = FALSE
            /\ hpc' = [hpc EXCEPT ![h] = "done"]
            /\ result' = [result EXCEPT ![h] = "thrown"]
            /\ UNCHANGED calls
       ELSE LoopAgain(h)
    /\ lastError' = [lastError EXCEPT ![h] = "none"]
    /\ UNCHANGED << tries, resetPc, resets >>
    /\ UNCHANGED nonConvVars

\* manager.progress.notice rejects: the error leaves the catch block.
NoticeFails(h) ==
    /\ hpc[h] = "noticing"
    /\ hpc' = [hpc EXCEPT ![h] = "done"]
    /\ result' = [result EXCEPT ![h] = "noticeFailed"]
    /\ lastError' = [lastError EXCEPT ![h] = "none"]
    /\ UNCHANGED << generating, tries, calls, resetPc, resets >>
    /\ UNCHANGED nonConvVars

\* The retry delay of line 354 is over.
RetryDelayOver(h) ==
    /\ hpc[h] = "retryDelay"
    /\ LoopAgain(h)
    /\ UNCHANGED << tries, lastError, resetPc, resets >>
    /\ UNCHANGED nonConvVars

\* Conversation.reset up to its awaits (model.reset, database).
ResetCalled ==
    /\ resetPc = "idle"
    /\ resets < MaxResets
    /\ resets' = resets + 1
    /\ resetPc' = "awaiting"
    /\ UNCHANGED << generating, hpc, tries, calls, lastError, result >>
    /\ UNCHANGED nonConvVars

\* Conversation.reset, lines 288-290: this.generating = false.
ResetDone ==
    /\ resetPc = "awaiting"
    /\ resetPc' = "idle"
    /\ generating' = FALSE
    /\ UNCHANGED << hpc, tries, calls, lastError, result, resets >>
    /\ UNCHANGED nonConvVars

HandleNext ==
    \/ \E h \in Handlers : \E c \in BOOLEAN : HandleStart(h, c)
    \/ \E h \in Handlers : HandleCooldownWait(h)
    \/ \E h \in Handlers : HandleCooldownOver(h)
    \/ \E h \in Handlers : \E b \in BOOLEAN : HandleModerated(h, b)
    \/ \E h \in Handlers : Generate(h)
    \/ \E h \in Handlers : SessionGenerateReturns(h)
    \/ \E h \in Handlers : \E k \in ErrorKinds : SessionGenerateThrows(h, k)
    \/ \E h \in Handlers : NoticeSent(h)
    \/ \E h \in Handlers : NoticeFails(h)
    \/ \E h \in Handlers : RetryDelayOver(h)

ConvNext ==
    \/ \E h \in Handlers : \E c \in BOOLEAN : HandleStart(h, c)
    \/ \E h \in Handlers : HandleCooldownWait(h)
    \/ \E h \in Handlers : HandleCooldownOver(h)
    \/ \E h \in Handlers : \E b \in BOOLEAN : HandleModerated(h, b)
    \/ \E h \in Handlers : Generate(h)
    \/ \E h \in Handlers : SessionGenerateReturns(h)
    \/ \E h \in Handlers : \E k \in ErrorKinds : SessionGenerateThrows(h, k)
    \/ \E h \in Handlers : NoticeSent(h)
    \/ \E h \in Handlers : NoticeFails(h)
    \/ \E h \in Handlers : RetryDelayOver(h)
    \/ ResetCalled
    \/ ResetDone

ConvSpec == Init /\ [][ConvNext]_vars

\* The awaited calls (model, notice, timers) settle: every invocation that
\* can take a step eventually takes one.
ConvLiveSpec == Init /\ [][HandleNext]_vars /\ WF_vars(HandleNext)

\* ---------------------------------------------------------- chat handler
\* handleMessage for a message of author a that mentions the bot, lines
\* 81-86: the test of runningGenerations, then the awaits of the database.
HandleMessage(m, a) ==
    /\ mpc[m] = "none"
    /\ mauthor' = [mauthor EXCEPT ![m] = a]
    /\ IF a \in runningGenerations
       THEN /\ mpc' = [mpc EXCEPT ![m] = "done"]
            /\ mresult' = [mresult EXCEPT ![m] = "busy"]
       ELSE /\ mpc' = [mpc EXCEPT ![m] = "fetching"]
            /\ UNCHANGED mresult
    /\ UNCHANGED << runningGenerations, propagating >>
    /\ UNCHANGED << infraVars, convVars, dbVars >>

\* bot.db.env, bot.db.fetch or moderate rejects: handleMessage throws before
\* its try statement.
FetchFails(m) ==
    /\ mpc[m] = "fetching"
    /\ mpc' = [mpc EXCEPT ![m] = "done"]
    /\ mresult' = [mresult EXCEPT ![m] = "failed"]
    /\ UNCHANGED << runningGenerations, mauthor, propagating >>
    /\ UNCHANGED << infraVars, convVars, dbVars >>

\* Lines 132-142: moderate has resolved; a blocked prompt is answered with
\* the notice, any other one enters the try statement and is added to
\* runningGenerations.
Moderated(m, blocked) ==
    /\ mpc[m] = "fetching"
    /\ IF blocked
       THEN /\ mpc' = [mpc EXCEPT ![m] = "done"]
            /\ mresult' = [mresult EXCEPT ![m] = "blocked"]
            /\ UNCHANGED runningGenerations
       ELSE /\ runningGenerations' = runningGenerations \cup {mauthor[m]}
            /\ mpc' = [mpc EXCEPT ![m] = "typing"]
            /\ UNCHANGED mresult
    /\ UNCHANGED << mauthor, propagating >>
    /\ UNCHANGED << infraVars, convVars, dbVars >>

\* Lines 144-150: Promise.all of startTyping and addReaction settles.
TypingDone(m, ok) ==
    /\ mpc[m] = "typing"
    /\ mpc' = [mpc EXCEPT ![m] = IF ok THEN "executing" ELSE "errorReply"]
    /\ UNCHANGED << runningGenerations, mauthor, mresult, propagating >>
    /\ UNCHANGED << infraVars, convVars, dbVars >>

\* Lines 152-154: execute settles.
ExecuteDone(m, ok) ==
    /\ mpc[m] = "executing"
    /\ mpc' = [mpc EXCEPT ![m] = IF ok THEN "replying" ELSE "errorReply"]
    /\ UNCHANGED << runningGenerations, mauthor, mresult, propagating >>
    /\ UNCHANGED << infraVars, convVars, dbVars >>

\* Lines 156-169: the edit or the reply that carries the result settles.
ReplyDone(m, ok) ==
    /\ mpc[m] = "replying"
    /\ mpc' = [mpc EXCEPT ![m] = IF ok THEN "cleanup" ELSE "errorReply"]
    /\ UNCHANGED << runningGenerations, mauthor, mresult, propagating >>
    /\ UNCHANGED << infraVars, convVars, dbVars >>

\* Lines 171-176, the catch block: the reply that carries the error settles;
\* if it rejects, its error is thrown once the finally block has run.
ErrorReplyDone(m, ok) ==
    /\ mpc[m] = "errorReply"
    /\ mpc' = [mpc EXCEPT ![m] = "cleanup"]
    /\ propagating' = [propagating EXCEPT ![m] = ~ok]
    /\ UNCHANGED << runningGenerations, mauthor, mresult >>
    /\ UNCHANGED << infraVars, convVars, dbVars >>

\* Lines 177-182, the finally block: await deleteOwnReaction, then
\* runningGenerations.delete. A rejection of deleteOwnReaction leaves the
\* block before the delete.
CleanupDone(m, ok) ==
    /\ mpc[m] = "cleanup"
    /\ IF ok
       THEN /\ runningGenerations' = runningGenerations \ {mauthor[m]}
            /\ IF propagating[m]
               THEN /\ mpc' = [mpc EXCEPT ![m] = "done"]
                    /\ mresult' = [mresult EXCEPT ![m] = "failed"]
               ELSE /\ mpc' = [mpc EXCEPT ![m] = "updating"]
                    /\ UNCHANGED mresult
       ELSE /\ mpc' = [mpc EXCEPT ![m] = "done"]
            /\ mresult' = [mresult EXCEPT ![m] = "failed"]
            /\ UNCHANGED runningGenerations
    /\ propagating' = [propagating EXCEPT ![m] = FALSE]
    /\ UNCHANGED mauthor
    /\ UNCHANGED << infraVars, convVars, dbVars >>

\* Line 185: bot.db.update of the conversation settles.
UpdateDone(m, ok) ==
    /\ mpc[m] = "updating"
    /\ mpc' = [mpc EXCEPT ![m] = "done"]
    /\ mresult' = [mresult EXCEPT ![m] = IF ok THEN "ok" ELSE "failed"]
    /\ UNCHANGED << runningGenerations, mauthor, propagating >>
    /\ UNCHANGED << infraVars, convVars, dbVars >>

ChatNext ==
    \/ \E m \in Messages : \E a \in Authors : HandleMessage(m, a)
    \/ \E m \in Messages : FetchFails(m)
    \/ \E m \in Messages : \E b \in BOOLEAN : Moderated(m, b)
    \/ \E m \in Messages : \E ok \in BOOLEAN : TypingDone(m, ok)
    \/ \E m \in Messages : \E ok \in BOOLEAN : ExecuteDone(m, ok)
    \/ \E m \in Messages : \E ok \in BOOLEAN : ReplyDone(m, ok)
    \/ \E m \in Messages : \E ok \in BOOLEAN : ErrorReplyDone(m, ok)
    \/ \E m \in Messages : \E ok \in BOOLEAN : CleanupDone(m, ok)
    \/ \E m \in Messages : \E ok \in BOOLEAN : UpdateDone(m, ok)

ChatSpec == Init /\ [][ChatNext]_vars

\* ------------------------------------------------------ database worker
\* The bodies that the bot-side helpers build.
update(collection, id, data) ==
    [type |-> "update", action |-> Absent, collection |-> collection,
     id |-> id, data |-> data]

insert(collection, data, id) ==
    [type |-> "insert", action |-> Absent, collection |-> collection,
     id |-> id, data |-> data]

remove(collection, id) ==
    [type |-> "remove", action |-> Absent, collection |-> collection,
     id |-> id, data |-> Absent]

\* Bodies published by another producer: no type field, at most one of the
\* four fields that the consumer reads is missing or wrong.
RawBodies ==
    {b \in Bodies :
        /\ b.type = Absent
        /\ Cardinality({f \in {"action", "collection", "id", "data"} :
                           \/ b[f] = Absent
                           \/ f = "collection" /\ b[f] \notin CollectionNames}) <= 1}

\* publisher.send(queue, body). Messages are numbered in the order of their
\* publication.
sendQuery(m, body) ==
    /\ dbpc[m] = "unsent"
    /\ \A n \in DbMessages : n < m => dbpc[n] # "unsent"
    /\ dbBody' = [dbBody EXCEPT ![m] = body]
    /\ dbpc' = [dbpc EXCEPT ![m] = "queued"]
    /\ UNCHANGED << store, cache, existing, dbReply >>
    /\ UNCHANGED << infraVars, convVars, chatVars >>

ClientUpdate(m, collection, id, data) == sendQuery(m, update(collection, id, data))

ClientInsert(m, collection, data, id) == sendQuery(m, insert(collection, data, id))

ClientRemove(m, collection, id) == sendQuery(m, remove(collection, id))

PublishRaw(m, body) == sendQuery(m, body)

\* The tests of handleMessage, lines 139-140: !x holds of a missing field.
ValidMessageNoData(message) ==
    /\ message.action # Absent
    /\ message.collection # Absent
    /\ message.id # Absent
    /\ message.collection \in CollectionNames

ValidMessage(message) ==
    /\ message.action # Absent
    /\ message.collection # Absent
    /\ message.id # Absent
    /\ message.data # Absent
    /\ message.collection \in CollectionNames

getCollectionKey(collection, id) == << collection, id >>

KeyOf(m) == getCollectionKey(dbBody[m].collection, dbBody[m].id)

\* !existing: null is the only value of existing that is not an object.
Truthy(x) == x # NoEntry

\* What a query of the table resolves to: the response object.
Response(row) == [response |-> row, columns |-> "none"]

\* { id, ...data }
RowObject(data) == [response |-> "none", columns |-> data]

\* { ...existing, ...data }
Merged(object, data) == [object EXCEPT !.columns = data]

\* The consumer's handler takes the message: handleMessage validates it and
\* throws, which the handler answers with reply({success: false, error}), or
\* dispatches on message.action up to the first await of the action.
Consume(m) ==
    /\ dbpc[m] = "queued"
    /\ IF ~ValidMessage(dbBody[m])
       THEN /\ dbpc' = [dbpc EXCEPT ![m] = "done"]
            /\ dbReply' = [dbReply EXCEPT ![m] = "failure"]
       ELSE /\ dbpc' = [dbpc EXCEPT ![m] =
                            IF dbBody[m].action = "remove" THEN "delete" ELSE "getCache"]
            /\ UNCHANGED dbReply
    /\ UNCHANGED << store, cache, dbBody, existing >>
    /\ UNCHANGED << infraVars, convVars, chatVars >>

\* update and insert: existing = await getCache(collectionKey).
GetCacheDone(m) ==
    /\ dbpc[m] = "getCache"
    /\ existing' = [existing EXCEPT ![m] = cache[KeyOf(m)]]
    /\ dbpc' = [dbpc EXCEPT ![m] =
                    IF ~Truthy(cache[KeyOf(m)]) THEN "select"
                    ELSE IF dbBody[m].action = "update" THEN "dbUpdate"
                    ELSE "done"]
    /\ UNCHANGED << store, cache, dbBody, dbReply >>
    /\ UNCHANGED << infraVars, convVars, chatVars >>

\* existing = await db.from(collection).select("*").eq("id", id).single():
\* existing is the response object.
SelectDone(m) ==
    /\ dbpc[m] = "select"
    /\ LET found == Response(store[KeyOf(m)])
       IN /\ existing' = [existing EXCEPT ![m] = found]
          /\ dbpc' = [dbpc EXCEPT ![m] =
                          IF dbBody[m].action = "update"
                          THEN IF ~Truthy(found) THEN "dbInsert" ELSE "dbUpdate"
                          ELSE IF Truthy(found) THEN "setCacheExisting" ELSE "dbInsert"]
    /\ UNCHANGED << store, cache, dbBody, dbReply >>
    /\ UNCHANGED << infraVars, convVars, chatVars >>

\* The awaited write of the table resolves.
\* db.from(collection).insert({ id, ...data }): a row is added unless the id
\* is taken; update assigns the response to existing and caches it, insert
\* caches { id, ...data }.
\* db.from(collection).update({ ...data }).eq("id", id): the row with that
\* id, if there is one, takes the columns of data.
DbWriteDone(m) ==
    /\ dbpc[m] \in {"dbInsert", "dbUpdate"}
    /\ LET k == KeyOf(m)
           row == IF store[k] = NoRow THEN dbBody[m].data ELSE store[k]
       IN IF dbpc[m] = "dbInsert"
          THEN /\ store' = [store EXCEPT ![k] = row]
               /\ IF dbBody[m].action = "update"
                  THEN /\ existing' = [existing EXCEPT ![m] = Response(row)]
                       /\ dbpc' = [dbpc EXCEPT ![m] = "setCacheExisting"]
                  ELSE /\ dbpc' = [dbpc EXCEPT ![m] = "setCacheRow"]
                       /\ UNCHANGED existing
          ELSE /\ store' = [store EXCEPT ![k] =
                                IF @ = NoRow THEN NoRow ELSE dbBody[m].data]
               /\ dbpc' = [dbpc EXCEPT ![m] = "setCacheMerged"]
               /\ UNCHANGED existing
    /\ UNCHANGED << cache, dbBody, dbReply >>
    /\ UNCHANGED << infraVars, convVars, chatVars >>

\* setCache(collectionKey, ...) of update and insert; the action returns and
\* handleMessage returns null, for which the handler sends no reply.
SetCacheDone(m) ==
    /\ dbpc[m] \in {"setCacheExisting", "setCacheMerged", "setCacheRow"}
    /\ cache' = [cache EXCEPT ![KeyOf(m)] =
                    IF dbpc[m] = "setCacheExisting" THEN existing[m]
                    ELSE IF dbpc[m] = "setCacheMerged"
                    THEN Merged(existing[m], dbBody[m].data)
                    ELSE RowObject(dbBody[m].data)]
    /\ dbpc' = [dbpc EXCEPT ![m] = "done"]
    /\ existing' = [existing EXCEPT ![m] = NoEntry]
    /\ UNCHANGED << store, dbBody, dbReply >>
    /\ UNCHANGED << infraVars, convVars, chatVars >>

\* remove: await db.from(collection).delete().eq("id", id).
DeleteDone(m) ==
    /\ dbpc[m] = "delete"
    /\ store' = [store EXCEPT ![KeyOf(m)] = NoRow]
    /\ dbpc' = [dbpc EXCEPT ![m] = "delCache"]
    /\ UNCHANGED << cache, dbBody, existing, dbReply >>
    /\ UNCHANGED << infraVars, convVars, chatVars >>

\* remove: await redis.del(collectionKey).
DelCacheDone(m) ==
    /\ dbpc[m] = "delCache"
    /\ cache' = [cache EXCEPT ![KeyOf(m)] = NoEntry]
    /\ dbpc' = [dbpc EXCEPT ![m] = "done"]
    /\ UNCHANGED << store, dbBody, existing, dbReply >>
    /\ UNCHANGED << infraVars, convVars, chatVars >>

DbNext ==
    \/ \E m \in DbMessages : \E c \in CollectionNames : \E i \in Ids :
          \E d \in DataValues : ClientUpdate(m, c, i, d)
    \/ \E m \in DbMessages : \E c \in CollectionNames : \E d \in DataValues :
          \E i \in Ids \cup {Absent} : ClientInsert(m, c, d, i)
    \/ \E m \in DbMessages : \E c \in CollectionNames : \E i \in Ids :
          ClientRemove(m, c, i)
    \/ \E m \in DbMessages : \E b \in RawBodies : PublishRaw(m, b)
    \/ \E m \in DbMessages : Consume(m)
    \/ \E m \in DbMessages : GetCacheDone(m)
    \/ \E m \in DbMessages : SelectDone(m)
    \/ \E m \in DbMessages : DbWriteDone(m)
    \/ \E m \in DbMessages : SetCacheDone(m)
    \/ \E m \in DbMessages : DeleteDone(m)
    \/ \E m \in DbMessages : DelCacheDone(m)

\* The tables hold any rows when the worker starts; the cache is empty.
DbInit ==
    /\ GatewayInit /\ PlanOff /\ configAuth = "k1" /\ HttpOff /\ StatusOff /\ ReloadOff
    /\ ConvOff /\ ChatOff
    /\ DbIdle
    /\ store \in [Keys -> DataValues \cup {NoRow}]

DbSpec == DbInit /\ [][DbNext]_vars

\* ------------------------------------------------------- specifications
Progress ==
    \/ \E b \in Buckets : SpawnShards(b)
    \/ \E s \in Shards : ListenToIdentify(s)
    \/ \E s \in Shards : RequestIdentifyGranted(s)
    \/ \E s \in Shards : ListenAllowIdentify(s)
    \/ \E s \in Shards : ListenShardOn(s)
    \/ \E s \in Shards : ListenShardOnResolve(s)
    \/ \E s \in Shards : WorkerIdentifyShard(s)
    \/ \E s \in Shards : WorkerAllowIdentify(s)
    \/ \E s \in Shards : GatewayReady(s)

Next ==
    \/ \E b \in Buckets : SpawnShards(b)
    \/ \E s \in Shards : ListenToIdentify(s)
    \/ \E s \in Shards : RequestIdentifyGranted(s)
    \/ \E s \in Shards : ListenAllowIdentify(s)
    \/ \E s \in Shards : ListenShardOn(s)
    \/ \E s \in Shards : ListenShardOnResolve(s)
    \/ \E s \in Shards : WorkerIdentifyShard(s)
    \/ \E s \in Shards : WorkerAllowIdentify(s)
    \/ \E s \in Shards : GatewayReady(s)
    \/ \E s \in Shards : GatewayReject(s)
    \/ \E s \in Shards : ShardReconnect(s)
    \/ \E s \in Shards : TransportHang(s)
    \/ \E w \in WorkerIds : WorkerCrash(w)

Spec == Init /\ [][Next]_vars

\* The handlers under any caller of gateway.tellWorkerToIdentify.
HookNext ==
    \/ \E s \in Shards : TellCall(s)
    \/ \E s \in Shards : ListenToIdentify(s)
    \/ \E s \in Shards : RequestIdentifyGranted(s)
    \/ \E s \in Shards : ListenAllowIdentify(s)
    \/ \E s \in Shards : ListenShardOn(s)
    \/ \E s \in Shards : ListenShardOnResolve(s)
    \/ \E s \in Shards : WorkerIdentifyShard(s)
    \/ \E s \in Shards : WorkerAllowIdentify(s)
    \/ \E s \in Shards : GatewayReady(s)
    \/ \E s \in Shards : ShardReconnect(s)

HookSpec == Init /\ [][HookNext]_vars

\* Start-up with live workers and a gateway that answers every identify with
\* READY or with a rejection: threads do not exit, transports do not hang.
LiveNext ==
    \/ \E b \in Buckets : SpawnShards(b)
    \/ \E s \in Shards : ListenToIdentify(s)
    \/ \E s \in Shards : RequestIdentifyGranted(s)
    \/ \E s \in Shards : ListenAllowIdentify(s)
    \/ \E s \in Shards : ListenShardOn(s)
    \/ \E s \in Shards : ListenShardOnResolve(s)
    \/ \E s \in Shards : WorkerIdentifyShard(s)
    \/ \E s \in Shards : WorkerAllowIdentify(s)
    \/ \E s \in Shards : GatewayReady(s)
    \/ \E s \in Shards : GatewayReject(s)

\* The event loops of the manager and of the workers keep running the
\* handlers that are ready, and the gateway answers an identify.
Fairness == WF_vars(Progress)

LiveSpec == Init /\ [][LiveNext]_vars /\ Fairness

\* ================================================================ claims
BucketShards(b) == {s \in Shards : concurrency(s) = b}

\* A shard holds the in-flight slot of its bucket from the call of
\* tellWorkerToIdentify for it until a SHARD_ON of its own has been handled.
InFlight(s) == tellPromise[s] # "none" /\ s \notin released

\* The manager and the workers have nothing left to run.
Settled == ~ ENABLED Progress

\* C1: in every reachable state each bucket has at most one shard between
\* "told to identify" and "released by its own SHARD_ON".
C1_OneInFlightPerBucket ==
    \A b \in Buckets : Cardinality({s \in BucketShards(b) : InFlight(s)}) <= 1

\* C2: ALLOW_IDENTIFY{s} is posted only by a step that starts with the
\* request of s granted, hence after TO_IDENTIFY{s} was received and
\* gateway.requestIdentify(s) has resolved.
C2_AllowOnlyAfterGrant ==
    [][\A s \in Shards :
          (s \in msgAllowIdentify' /\ s \notin msgAllowIdentify)
              => requesting[s] = "granted"]_vars

C2_Witness ==
    \E s \in Shards :
        /\ s \in msgAllowIdentify
        /\ requesting[s] = "none"
        /\ shardState[s] = "PendingIdentify"

\* C3: within one bucket the requests are resolved in the order of their
\* enqueue: a resolved request has no older unresolved request in its bucket.
C3_FifoGrants ==
    \A r1 \in Shards : \A r2 \in Shards :
        ( /\ concurrency(r1) = concurrency(r2)
          /\ requestOrder[r1] > 0
          /\ requestOrder[r1] < requestOrder[r2]
          /\ tellPromise[r2] = "resolved" )
        => tellPromise[r1] = "resolved"

C3_Witness ==
    \E r1 \in Shards : \E r2 \in Shards : \E r3 \in Shards :
        /\ concurrency(r1) = concurrency(r2)
        /\ concurrency(r2) = concurrency(r3)
        /\ requestOrder[r1] = 1 /\ requestOrder[r2] = 2 /\ requestOrder[r3] = 3
        /\ tellPromise[r1] = "resolved"
        /\ tellPromise[r2] = "resolved"
        /\ identifyRequests[concurrency(r3)] = << r3 >>

\* C4: a release (the SHARD_ON handler after its delay) of a bucket whose
\* queue is empty changes neither the queues nor any promise nor any message;
\* on a non-empty queue it removes exactly the head, resolves exactly that
\* request, and keeps the other waiters in their order.
C4_ReleaseSemantics ==
    [][\A s \in Shards :
          delaying'[s] < delaying[s] =>
              LET b == concurrency(s)
                  q == identifyRequests[b]
              IN  /\ q = << >> =>
                        /\ identifyRequests' = identifyRequests
                        /\ tellPromise' = tellPromise
                  /\ q # << >> =>
                        /\ identifyRequests' = [identifyRequests EXCEPT ![b] = Tail(q)]
                        /\ tellPromise' = [tellPromise EXCEPT ![Head(q)] = "resolved"]
                  /\ UNCHANGED << workers, created, alive, spawnIdx, msgIdentifyShard,
                                  msgToIdentify, requesting, msgAllowIdentify,
                                  msgShardOn, shardState >>]_vars

C4_Witness ==
    \E b \in Buckets : \E s \in BucketShards(b) : \E h \in BucketShards(b) :
        /\ s \in released
        /\ delaying[s] = 0 /\ msgShardOn[s] = 0
        /\ requestOrder[h] = 1
        /\ tellPromise[h] = "resolved"
        /\ Len(identifyRequests[b]) = 2
        /\ requestOrder[identifyRequests[b][1]] = 2
        /\ requestOrder[identifyRequests[b][2]] = 3

AllUp ==
    \A s \in Shards :
        /\ shardState[s] = "Ready"
        /\ s \in released
        /\ tellPromise[s] = "resolved"

C7_CrashRespawns ==
    Settled => \A w \in workers : w \in alive

\* C8: once everything has settled no bucket queue holds the request of a
\* shard whose worker thread has exited.
C8_NoSlotHeldByDeadRequest ==
    Settled =>
        \A b \in Buckets : \A i \in 1 .. Len(identifyRequests[b]) :
            calculateWorkerId(identifyRequests[b][i]) \in alive

\* C9: once everything has settled, a shard that hangs has not kept the other
\* shards of its bucket from being started.
C9_StuckShardDoesNotBlock ==
    Settled =>
        \A s \in hung : \A o \in BucketShards(concurrency(s)) :
            tellPromise[o] # "none"

\* C10: a shard whose identify was rejected goes to the back: it identifies
\* again only after every other shard of its bucket has been started.
C10_RejectedGoesToBack ==
    \A s \in rejected :
        shardState[s] \in {"Identifying", "Ready"}
            => \A o \in BucketShards(concurrency(s)) : tellPromise[o] # "none"

\* The shards of worker w for which tellWorkerToIdentify has been called.
ToldShards(w) == {s \in OwnedShards(w) : tellPromise[s] # "none"}

\* C11: createWorker has run exactly once for every workerId that
\* tellWorkerToIdentify was called with, never for another one, and the
\* worker is the entry of the workers map: later calls reuse it.
C11_OneWorkerPerId ==
    \A w \in WorkerIds :
        /\ created[w] = (IF ToldShards(w) # {} THEN 1 ELSE 0)
        /\ (w \in workers) <=> (created[w] = 1)

C11_Witness ==
    \E w \in WorkerIds :
        /\ Cardinality(ToldShards(w)) >= 2
        /\ created[w] = 1
        /\ w \in workers

\* The shards that the computed assignment hands to worker w.
PlanOwned(w) == {s \in 0 .. (cfgShards - 1) : plan[s + 1] = w}

PlanComplete == planPc = "created" /\ Len(plan) = cfgShards

ReleaseOnlyAfterDelay ==
    [][\A h \in Shards :
          (tellPromise[h] = "pending" /\ tellPromise'[h] = "resolved")
              => \E s \in BucketShards(concurrency(h)) :
                     delaying[s] > 0 /\ delaying'[s] = delaying[s] - 1]_vars

\* C13: the bucket of the holder h is released (the promise of h resolves
\* and the next shard of the bucket is started) only by the SHARD_ON handler
\* of h itself after its delay: not before h has reported READY.
C13_ReleaseAfterHolderReady ==
    [][\A h \in Shards :
          (tellPromise[h] = "pending" /\ tellPromise'[h] = "resolved")
              => (delaying[h] > 0 /\ delaying'[h] = delaying[h] - 1)]_vars

\* C20: the SHARD_ON{s} handler resolves the promise that tellWorkerToIdentify
\* created for s (if it is pending) and the promise of no other shard.
C20_ShardOnResolvesOwnPromise ==
    [][\A s \in Shards :
          delaying'[s] < delaying[s] =>
              tellPromise' =
                  [tellPromise EXCEPT ![s] = IF @ = "pending" THEN "resolved" ELSE @]]_vars

\* C17: a request whose authorization header is not the configured key, or
\* any request while no key is configured, gets 401; a request with the key
\* and a type other than REQUEST_MEMBERS gets 404; in both cases
\* gateway.requestMembers is not called and the manager state is unchanged.
C17_RejectsWithoutSideEffect ==
    [][LET unauthorized == \/ configAuth \in {"unset", ""}
                           \/ httpReq.authorization # configAuth
           unknown == httpReq.type # "REQUEST_MEMBERS"
       IN  /\ (httpPc = "received" /\ unauthorized) =>
                 /\ httpPc' = "done"
                 /\ httpStatus' = 401 /\ httpResponses' = 1
                 /\ requestMembersCalls' = requestMembersCalls
                 /\ UNCHANGED gatewayVars
           /\ (httpPc = "received" /\ ~ unauthorized /\ unknown) =>
                 /\ httpPc' = "done"
                 /\ httpStatus' = 404 /\ httpResponses' = 1
                 /\ requestMembersCalls' = requestMembersCalls
                 /\ UNCHANGED gatewayVars
           /\ requestMembersCalls' # requestMembersCalls =>
                 (httpPc = "received" /\ ~ unauthorized /\ ~ unknown)]_vars

\* No key configured and a request that sends the same (empty) value: 401.
C17_Witness ==
    /\ httpPc = "done"
    /\ configAuth = ""
    /\ httpReq = [authorization |-> "", type |-> "REQUEST_MEMBERS"]
    /\ httpStatus = 401
    /\ requestMembersCalls = 0

\* C18: when the handler of a request is done, exactly one response has
\* been sent for it.
C18_ExactlyOneResponse ==
    httpPc = "done" => httpResponses = 1

\* C19: a chat message handled while maintenance is set on the manager is
\* answered with the maintenance notice; conversation.generate is not called.
C19_MaintenancePausesChat ==
    (lastChat.done # "none" /\ lastChat.set = "maintenance")
        => lastChat.done = "notice"

\* C14: no shard k is Ready in the new generation while the scheduler of the
\* old generation has the bucket of k in flight, and no shard id is
\* Identifying in both generations at once.
C14_NoDoubleOccupancy ==
    \A k \in Shards :
        /\ ~ (genShard["new"][k] = "Ready" /\ genInFlight["old"][concurrency(k)])
        /\ ~ (genShard["new"][k] = "Identifying" /\ genShard["old"][k] = "Identifying")

Needed(g) ==
    Cardinality({k \in Shards : genShard[g][k] \in {"Disconnected", "PendingIdentify"}})

\* C16: while a generation is starting with fewer session starts remaining
\* than the identifies it still needs, RateLimitExhausted has been reported
\* and the old generation is live.
C16_InsufficientBudgetReported ==
    (genStatus["new"] = "starting" /\ sessionRemaining < Needed("new"))
        => (reloadReply = "RateLimitExhausted" /\ genStatus["old"] = "live")

InGenerate(h) == hpc[h] \in {"calling", "noticing", "retryDelay"}

\* Every invocation has ended.
AllHandled == \A h \in Handlers : hpc[h] = "done"

\* C21: whenever a call of Conversation.generate ends, by a result or by any
\* of its errors, the conversation is unlocked: in every step in which an
\* invocation leaves generate, generating is FALSE afterwards.
C21_UnlockedWhenGenerateEnds ==
    [][\A h \in Handlers :
          (InGenerate(h) /\ hpc'[h] = "done") => generating' = FALSE]_vars

\* C22: at most one call of manager.session.generate is in flight for the
\* conversation at any time, for every interleaving of Generator.handle
\* invocations and Conversation.reset.
C22_OneGenerationInFlight ==
    Cardinality({h \in Handlers : hpc[h] = "calling"}) <= 1

\* C23: one call of Conversation.generate calls manager.session.generate at
\* most CONVERSATION_ERROR_RETRY_MAX_TRIES times, one call per try; a
\* success ends it at once; the failure of the last try ends it with that
\* error rethrown; and the call always ends.
C23_AtMostMaxTries ==
    /\ [](\A h \in Handlers :
            /\ calls[h] <= CONVERSATION_ERROR_RETRY_MAX_TRIES
            /\ hpc[h] = "calling" => calls[h] = tries[h] + 1
            /\ tries[h] = CONVERSATION_ERROR_RETRY_MAX_TRIES
                  => (hpc[h] = "done" /\ result[h] = "rethrown")
            /\ result[h] = "ok" => (hpc[h] = "done" /\ calls[h] = tries[h] + 1)
            /\ result[h] \in {"rethrown", "What"}
                  => tries[h] = CONVERSATION_ERROR_RETRY_MAX_TRIES)
    /\ <>[]AllHandled

C23_Witness ==
    \E h \in Handlers :
        /\ hpc[h] = "done"
        /\ result[h] = "rethrown"
        /\ calls[h] = CONVERSATION_ERROR_RETRY_MAX_TRIES

\* C24: execute is never running twice at the same time for one author, and
\* a message that arrives while one is running is rejected.
C24_OneExecutePerAuthor ==
    \A m1, m2 \in Messages :
        (m1 # m2 /\ mpc[m1] = "executing" /\ mpc[m2] = "executing")
            => mauthor[m1] # mauthor[m2]

\* C25: once handleMessage has finished for every message of an author, the
\* author is not in runningGenerations.
C25_AuthorReleasedWhenFinished ==
    \A a \in Authors :
        (\A m \in Messages : mauthor[m] = a => mpc[m] = "done")
            => a \notin runningGenerations

\* A queue message that lacks action, collection, id or data, or names a
\* collection that is not in CollectionNames.
InvalidMessage(b) ==
    \/ b.action = Absent
    \/ b.collection = Absent
    \/ b.id = Absent
    \/ b.data = Absent
    \/ b.collection \notin CollectionNames

NoOperation == {"unsent", "queued", "done"}

C27_ClientRequestsAccepted ==
    \A m \in DbMessages :
        (dbBody[m].type # Absent /\ dbpc[m] = "done") => dbReply[m] # "failure"

Coherent(k) ==
    \/ cache[k] = NoEntry
    \/ store[k] # NoRow /\ cache[k] = RowObject(store[k])

\* C28: when no update, insert or remove is in progress, the cache has for
\* each key no entry or an entry equal to the stored row.
C28_CacheCoherent ==
    (\A m \in DbMessages : dbpc[m] \in NoOperation) => \A k \in Keys : Coherent(k)

====
